---- MODULE Spec2Model ----
(***************************************************************************)
(* Graph colouring: Graph, backtracking_coloring, greedy_coloring,         *)
(* dsatur_coloring and simulated_annealing.                                *)
(*                                                                         *)
(* A Python list of length m is a function on 0..m-1, so that indices are  *)
(* the source's indices; a neighbor list adj[u] is a sequence (append      *)
(* order is kept).  An Optional value is a sequence of length at most 1:   *)
(* None is << >> and a present value x is << x >>.                         *)
(*                                                                         *)
(* The caller builds a graph with Graph.from_edge_list and then either     *)
(* calls one colorer on it (as the tests do) or runs the four colorers in  *)
(* the order of compare_all_algorithms: backtracking, greedy, DSATUR,      *)
(* annealing, with the order flags and the budget k left open.  Each       *)
(* colorer runs step by step on its own locals (bt, gr, ds, sa) and hands  *)
(* its result object back into results.  The elapsed-time fields of the    *)
(* results are not modelled.                                               *)
(*                                                                         *)
(* BuildSpec and GraphSpec follow a graph under construction, one add_edge *)
(* or degree call at a time.  CompareSpec adds compare_all_algorithms      *)
(* (cmp), which calls the colorers itself and files what they return or    *)
(* raise; its graphs include the ones a failed add_edge(u, n) leaves with  *)
(* the neighbor n in adj[u], on which the colorers raise IndexError.       *)
(***************************************************************************)
EXTENDS Integers, Sequences, FiniteSets, TLC

\* ------------------------------------------------------------------ bounds
\* largest vertex count of the graphs explored
MaxN == 4
\* largest vertex count of the graphs simulated_annealing is run on
MaxSAN == 3
\* largest colour budget k given to simulated_annealing
MaxK == 2
\* largest max_iter given to simulated_annealing
MaxIter == 1
\* largest number of add_edge calls made on one graph under construction
MaxCalls == 3
\* largest seed given to random.seed before the threads start
MaxSeed == 3

VARIABLES
    n,        \* Graph.n
    adj,      \* Graph.adj : vertex -> neighbor list
    call,     \* the Graph method call the caller made last and how it ended
    cmp,      \* locals of the compare_all_algorithms invocation: its position,
              \* k_for_annealing and its dict `results` (here: report)
    pc,       \* the function control is in: "main", "compare", "backtracking",
              \* "greedy", "dsatur", "annealing"
    results,  \* what each colorer call handed to its caller (Optional): the
              \* result object, or the exception it raised
    bt,       \* locals of the running backtracking_coloring invocation
    gr,       \* locals of the running greedy_coloring invocation
    ds,       \* locals of the running dsatur_coloring invocation
    sa,       \* locals of the running simulated_annealing invocation
    par       \* two simulated_annealing invocations running in two threads:
              \* the state of the generator behind the module-level functions
              \* of `random`, which both use, and the locals of each

vars == <<n, adj, call, cmp, pc, results, bt, gr, ds, sa, par>>

\* ----------------------------------------------------------------- helpers
None == << >>
Some(x) == << x >>
Range(m) == 0 .. (m - 1)
Idle == [active |-> FALSE]

\* a call that ended by raising an exception of class kind
Raised(kind) == [raised |-> kind]
IsRaised(r) == "raised" \in DOMAIN r

SetMax(S) == CHOOSE x \in S : \A y \in S : y <= x
SetMin(S) == CHOOSE x \in S : \A y \in S : x <= y

\* the four colorers, by the key compare_all_algorithms files them under
Algorithms == {"backtracking", "greedy", "dsatur", "annealing"}

\* d[key] = val on a Python dict d
DictSet(d, key, val) == [x \in DOMAIN d \cup {key} |-> IF x = key THEN val ELSE d[x]]

\* x in list (a sequence)
InList(x, L) == \E i \in 1 .. Len(L) : L[i] = x

\* ------------------------------------------------------------------- Graph
\* Graph.__init__ : n vertices, every neighbor list empty
NewGraph(m) == [i \in Range(m) |-> << >>]

\* bug: the two appends are made without the membership tests
AddEdge_Unguarded(a, u, v) ==
    IF u = v THEN a
    ELSE [a EXCEPT ![u] = Append(@, v), ![v] = Append(@, u)]

\* bug: only adj[u] gets the new neighbor
AddEdge_OneWay(a, u, v) ==
    IF u = v THEN a
    ELSE IF ~InList(v, a[u]) THEN [a EXCEPT ![u] = Append(@, v)] ELSE a

\* Graph.add_edge on in-range vertices: the two guarded appends
AddEdge(a, u, v) ==
    IF u = v THEN a
    ELSE LET a1 == IF ~InList(v, a[u]) THEN [a EXCEPT ![u] = Append(@, v)] ELSE a
         IN  IF ~InList(u, a1[v]) THEN [a1 EXCEPT ![v] = Append(@, u)] ELSE a1

\* Graph.add_edge for any two integers.  self.adj is a dict with the keys
\* 0 .. n-1, so self.adj[x] raises KeyError for every other x, negative ones
\* included; u == v returns before any lookup, and the append to adj[u] is
\* done before adj[v] is looked up
AddEdgeOutcome(a, u, v) ==
    IF u = v THEN [adj |-> a, raised |-> FALSE]
    ELSE IF u \notin DOMAIN a THEN [adj |-> a, raised |-> TRUE]
    ELSE IF v \notin DOMAIN a
    THEN [adj |-> IF ~InList(v, a[u]) THEN [a EXCEPT ![u] = Append(@, v)] ELSE a,
          raised |-> TRUE]
    ELSE [adj |-> AddEdge(a, u, v), raised |-> FALSE]

\* Graph.from_edge_list : add_edge for every edge of the list, in list order
RECURSIVE FromEdgeListFrom(_, _, _)
FromEdgeListFrom(a, edges, i) ==
    IF i > Len(edges) THEN a
    ELSE FromEdgeListFrom(AddEdge(a, edges[i][1], edges[i][2]), edges, i + 1)

FromEdgeList(m, edges) == FromEdgeListFrom(NewGraph(m), edges, 1)

\* Graph.degree
Degree(a, v) == Len(a[v])

\* Graph.degree for any integer: KeyError outside 0 .. n-1
DegreeOutcome(a, v) ==
    IF v \in DOMAIN a
    THEN [value |-> Some(Degree(a, v)), raised |-> FALSE]
    ELSE [value |-> None, raised |-> TRUE]

\* the edge lists the callers build: pairs u < v in lexicographic order
AllPairs(m) == {p \in Range(m) \X Range(m) : p[1] < p[2]}
PairLess(p, q) == p[1] < q[1] \/ (p[1] = q[1] /\ p[2] < q[2])

RECURSIVE SortedEdges(_)
SortedEdges(E) ==
    IF E = {} THEN << >>
    ELSE LET p == CHOOSE x \in E : \A y \in E : x = y \/ PairLess(x, y)
         IN  <<p>> \o SortedEdges(E \ {p})

\* is_proper_coloring(graph, colors); colors is a list (function on 0..len-1)
IsProperColoring(m, a, colors) ==
    /\ DOMAIN colors = Range(m)
    /\ \A u \in Range(m) : \A i \in 1 .. Len(a[u]) : colors[u] # colors[a[u][i]]

\* sorted(range(n), key=degree, reverse=True): descending degree; Python's sort
\* is stable also under reverse=True, so equal degrees stay in ascending index
RECURSIVE DegreeOrderSeq(_, _)
DegreeOrderSeq(a, S) ==
    IF S = {} THEN << >>
    ELSE LET v == CHOOSE x \in S : \A y \in S :
                      \/ Degree(a, x) > Degree(a, y)
                      \/ (Degree(a, x) = Degree(a, y) /\ x <= y)
         IN  <<v>> \o DegreeOrderSeq(a, S \ {v})

\* bug: the sorted list is walked from its end
VertexOrder_Reversed(m, a, use_degree_order) ==
    IF use_degree_order
    THEN LET s == DegreeOrderSeq(a, Range(m)) IN [i \in Range(m) |-> s[m - i]]
    ELSE [i \in Range(m) |-> i]

\* the list `order` of backtracking_coloring and greedy_coloring
VertexOrder(m, a, use_degree_order) ==
    IF use_degree_order
    THEN LET s == DegreeOrderSeq(a, Range(m)) IN [i \in Range(m) |-> s[i + 1]]
    ELSE [i \in Range(m) |-> i]

\* ------------------------------------------------------------ backtracking
\* bug: the test reads colors[v] (still uncolored) where it should read colors[u]
IsSafeVertex_WrongVertex(a, colors, v, c) ==
    \A i \in 1 .. Len(a[v]) : colors[v] # c

\* is_safe_vertex(v, c) against the working array colors
IsSafeVertex(a, colors, v, c) ==
    \A i \in 1 .. Len(a[v]) : a[v][i] \in DOMAIN colors => colors[a[v][i]] # c

\* is_safe_vertex(v, c) raises IndexError: the scan of adj[v] reaches a
\* neighbor u >= n (colors[u] is out of range) before a neighbor holding c
IsSafeVertexRaises(a, colors, v, c) ==
    \E i \in 1 .. Len(a[v]) :
        /\ a[v][i] \notin DOMAIN colors
        /\ \A j \in 1 .. (i - 1) : a[v][j] \in DOMAIN colors => colors[a[v][j]] # c

\* no colorer has returned to the caller yet
Fresh == \A alg \in DOMAIN results : results[alg] = None

\* where a colorer returns (or raises) to: compare_all_algorithms while it is
\* running, the top-level caller otherwise
Caller == IF cmp.at \in {"idle", "returned"} THEN "main" ELSE "compare"

Top(stack) == stack[Len(stack)]
Pop(stack) == SubSeq(stack, 1, Len(stack) - 1)
SetTop(stack, f) == [stack EXCEPT ![Len(stack)] = f]

\* bug: the bound starts at n, so a coloring with n colors is pruned
InitialBound_Tight(m) == m

\* best_num_colors before the search
InitialBound(m) == m + 1

\* bug: the bound test is missing
Prunes_Never(used_colors, best_num_colors) == FALSE

\* the bound test at the head of dfs
Prunes(used_colors, best_num_colors) == used_colors >= best_num_colors

\* backtracking_coloring(graph, use_degree_order) is called: locals are set up
\* and dfs(cur_pos=0, used_colors=0) is entered
CallBacktracking(use_degree_order) ==
    /\ \/ pc = "main" /\ Fresh
       \/ pc = "compare" /\ cmp.at = "backtracking" /\ results.backtracking = None
                         /\ use_degree_order
    /\ pc' = "backtracking"
    /\ bt' = [active |-> TRUE,
              order |-> VertexOrder(n, adj, use_degree_order),
              colors |-> [i \in Range(n) |-> -1],
              best_coloring |-> None,
              best_num_colors |-> InitialBound(n),
              nodes_visited |-> 0,
              stack |-> << [cur_pos |-> 0, used_colors |-> 0, c |-> 0, at |-> "enter"] >>]
    /\ UNCHANGED <<n, par, adj, call, cmp, results, gr, ds, sa>>

\* entry of dfs: count the node, prune, or record a complete coloring
DfsEnter ==
    /\ pc = "backtracking"
    /\ bt.stack # << >>
    /\ Top(bt.stack).at = "enter"
    /\ LET f == Top(bt.stack) IN
         IF Prunes(f.used_colors, bt.best_num_colors)
         THEN bt' = [bt EXCEPT !.nodes_visited = @ + 1, !.stack = Pop(@)]
         ELSE IF f.cur_pos = n
         THEN bt' = [bt EXCEPT !.nodes_visited = @ + 1,
                               !.best_num_colors = f.used_colors,
                               !.best_coloring = Some(bt.colors),
                               !.stack = Pop(@)]
         ELSE bt' = [bt EXCEPT !.nodes_visited = @ + 1,
                               !.stack = SetTop(@, [f EXCEPT !.at = "loop", !.c = 0])]
    /\ UNCHANGED <<n, par, adj, call, cmp, pc, results, gr, ds, sa>>

\* bug: the recursive call passes cur_pos instead of cur_pos + 1
ChildFrame_SamePosition(f) ==
    [cur_pos |-> f.cur_pos,
     used_colors |-> IF f.c < f.used_colors THEN f.used_colors ELSE f.used_colors + 1,
     c |-> 0, at |-> "enter"]

\* the call dfs(cur_pos + 1, used_colors) made for a reused colour c, or
\* dfs(cur_pos + 1, used_colors + 1) made for the new colour c = used_colors
ChildFrame(f) ==
    [cur_pos |-> f.cur_pos + 1,
     used_colors |-> IF f.c < f.used_colors THEN f.used_colors ELSE f.used_colors + 1,
     c |-> 0, at |-> "enter"]

\* one colour c of dfs: c < used_colors is an iteration of the for loop,
\* c = used_colors is the brand-new-colour branch after it
DfsTry ==
    /\ pc = "backtracking"
    /\ bt.stack # << >>
    /\ Top(bt.stack).at = "loop"
    /\ ~IsSafeVertexRaises(adj, bt.colors, bt.order[Top(bt.stack).cur_pos], Top(bt.stack).c)
    /\ LET f == Top(bt.stack)
           v == bt.order[f.cur_pos]
       IN  IF IsSafeVertex(adj, bt.colors, v, f.c)
           THEN bt' = [bt EXCEPT !.colors[v] = f.c,
                                 !.stack = Append(SetTop(@, [f EXCEPT !.at = "undo"]),
                                                  ChildFrame(f))]
           ELSE IF f.c < f.used_colors
           THEN bt' = [bt EXCEPT !.stack = SetTop(@, [f EXCEPT !.c = @ + 1])]
           ELSE bt' = [bt EXCEPT !.stack = Pop(@)]
    /\ UNCHANGED <<n, par, adj, call, cmp, pc, results, gr, ds, sa>>

\* is_safe_vertex raises inside dfs: the exception leaves every dfs frame and
\* backtracking_coloring (nothing there catches it)
DfsRaise ==
    /\ pc = "backtracking"
    /\ bt.stack # << >>
    /\ Top(bt.stack).at = "loop"
    /\ IsSafeVertexRaises(adj, bt.colors, bt.order[Top(bt.stack).cur_pos], Top(bt.stack).c)
    /\ results' = [results EXCEPT !.backtracking = Some(Raised("IndexError"))]
    /\ bt' = Idle
    /\ pc' = Caller
    /\ UNCHANGED <<n, par, adj, call, cmp, gr, ds, sa>>

\* bug: the colour given to v is not taken back after the recursive call
DfsUndo_NoReset ==
    /\ pc = "backtracking"
    /\ bt.stack # << >>
    /\ Top(bt.stack).at = "undo"
    /\ LET f == Top(bt.stack) IN
         IF f.c < f.used_colors
         THEN bt' = [bt EXCEPT !.stack = SetTop(@, [f EXCEPT !.at = "loop", !.c = @ + 1])]
         ELSE bt' = [bt EXCEPT !.stack = Pop(@)]
    /\ UNCHANGED <<n, par, adj, call, cmp, pc, results, gr, ds, sa>>

\* the recursive call came back: colors[v] = -1, then the next colour or return
DfsUndo ==
    /\ pc = "backtracking"
    /\ bt.stack # << >>
    /\ Top(bt.stack).at = "undo"
    /\ LET f == Top(bt.stack)
           v == bt.order[f.cur_pos]
       IN  IF f.c < f.used_colors
           THEN bt' = [bt EXCEPT !.colors[v] = -1,
                                 !.stack = SetTop(@, [f EXCEPT !.at = "loop", !.c = @ + 1])]
           ELSE bt' = [bt EXCEPT !.colors[v] = -1, !.stack = Pop(@)]
    /\ UNCHANGED <<n, par, adj, call, cmp, pc, results, gr, ds, sa>>

\* dfs(0, 0) returned: the BacktrackingResult goes back to the caller
ReturnBacktracking ==
    /\ pc = "backtracking"
    /\ bt.stack = << >>
    /\ results' = [results EXCEPT !.backtracking =
                     Some([coloring |-> bt.best_coloring,
                           num_colors |-> IF bt.best_coloring # None
                                          THEN bt.best_num_colors ELSE -1,
                           nodes_visited |-> bt.nodes_visited])]
    /\ bt' = Idle
    /\ pc' = Caller
    /\ UNCHANGED <<n, par, adj, call, cmp, gr, ds, sa>>

\* ------------------------------------------------------------------ greedy
\* the set used_colors built from the already-colored neighbors of v
UsedColors(a, colors, v) ==
    {colors[a[v][i]] : i \in {j \in 1 .. Len(a[v]) : colors[a[v][j]] # -1}}

\* color = 0; while color in used_colors: color += 1
RECURSIVE FirstFreeFrom(_, _)
FirstFreeFrom(used, color) ==
    IF color \in used THEN FirstFreeFrom(used, color + 1) ELSE color

\* bug: one above the largest neighbor colour instead of the smallest free one
FirstFree_AboveMax(used) == IF used = {} THEN 0 ELSE SetMax(used) + 1

FirstFree(used) == FirstFreeFrom(used, 0)

\* bug: the largest label is reported, without the + 1
NumColors_LargestLabel(m, colors) ==
    IF m > 0 THEN SetMax({colors[i] : i \in Range(m)}) ELSE 0

\* max(colors) + 1 if n > 0 else 0
NumColors(m, colors) ==
    IF m > 0 THEN SetMax({colors[i] : i \in Range(m)}) + 1 ELSE 0

\* the result both greedy_coloring and dsatur_coloring build after their loop
ValidatedResult(m, a, colors) ==
    IF ~IsProperColoring(m, a, colors)
    THEN [coloring |-> None, num_colors |-> -1]
    ELSE [coloring |-> Some(colors), num_colors |-> NumColors(m, colors)]

\* greedy_coloring(graph, use_degree_order) is called
CallGreedy(use_degree_order) ==
    /\ \/ pc = "main" /\ (Fresh \/ (results.backtracking # None /\ results.greedy = None))
       \/ pc = "compare" /\ cmp.at = "greedy" /\ results.greedy = None
                         /\ use_degree_order
    /\ pc' = "greedy"
    /\ gr' = [active |-> TRUE,
              use_degree_order |-> use_degree_order,
              order |-> VertexOrder(n, adj, use_degree_order),
              colors |-> [i \in Range(n) |-> -1],
              i |-> 0]
    /\ UNCHANGED <<n, par, adj, call, cmp, results, bt, ds, sa>>

\* colors[neighbor] raises IndexError for a neighbor >= n
ReadsOutOfRange(a, colors, v) ==
    \E i \in 1 .. Len(a[v]) : a[v][i] \notin DOMAIN colors

\* an iteration of `for v in order` raises: greedy_coloring is left
GreedyRaise ==
    /\ pc = "greedy"
    /\ gr.i < n
    /\ ReadsOutOfRange(adj, gr.colors, gr.order[gr.i])
    /\ results' = [results EXCEPT !.greedy = Some(Raised("IndexError"))]
    /\ gr' = Idle
    /\ pc' = Caller
    /\ UNCHANGED <<n, par, adj, call, cmp, bt, ds, sa>>

\* bug: the scan consumes the neighbor list of v
GreedyStep_ConsumesNeighbors ==
    /\ pc = "greedy"
    /\ gr.i < n
    /\ ~ReadsOutOfRange(adj, gr.colors, gr.order[gr.i])
    /\ LET v == gr.order[gr.i]
           color == FirstFree(UsedColors(adj, gr.colors, v))
       IN  /\ gr' = [gr EXCEPT !.colors[v] = color, !.i = @ + 1]
           /\ adj' = [adj EXCEPT ![v] = << >>]
    /\ UNCHANGED <<n, par, call, cmp, pc, results, bt, ds, sa>>

\* one iteration of `for v in order`
GreedyStep ==
    /\ pc = "greedy"
    /\ gr.i < n
    /\ ~ReadsOutOfRange(adj, gr.colors, gr.order[gr.i])
    /\ LET v == gr.order[gr.i]
           color == FirstFree(UsedColors(adj, gr.colors, v))
       IN  gr' = [gr EXCEPT !.colors[v] = color, !.i = @ + 1]
    /\ UNCHANGED <<n, par, adj, call, cmp, pc, results, bt, ds, sa>>

\* the loop is over: count the colors, validate, return the GreedyResult
ReturnGreedy ==
    /\ pc = "greedy"
    /\ gr.i = n
    /\ results' = [results EXCEPT !.greedy = Some(ValidatedResult(n, adj, gr.colors))]
    /\ gr' = Idle
    /\ pc' = Caller
    /\ UNCHANGED <<n, par, adj, call, cmp, bt, ds, sa>>

\* ------------------------------------------------------------------ dsatur
\* the scan `for v in range(n)` that selects best_vertex: an uncolored vertex
\* replaces the incumbent only on a strictly larger saturation, or equal
\* saturation and strictly larger degree
RECURSIVE BestVertexFrom(_, _, _, _, _, _)
BestVertexFrom(m, a, colors, neighbor_colors, v, best) ==
    IF v >= m THEN best
    ELSE IF colors[v] # -1
    THEN BestVertexFrom(m, a, colors, neighbor_colors, v + 1, best)
    ELSE LET saturation == Cardinality(neighbor_colors[v])
             degree == Degree(a, v)
         IN  IF \/ saturation > best.best_saturation
                \/ (saturation = best.best_saturation /\ degree > best.best_degree)
             THEN BestVertexFrom(m, a, colors, neighbor_colors, v + 1,
                                 [best_vertex |-> v,
                                  best_saturation |-> saturation,
                                  best_degree |-> degree])
             ELSE BestVertexFrom(m, a, colors, neighbor_colors, v + 1, best)

\* bug: the first uncolored vertex is taken
BestVertex_FirstUncolored(m, a, colors, neighbor_colors) ==
    IF \E v \in Range(m) : colors[v] = -1
    THEN SetMin({v \in Range(m) : colors[v] = -1})
    ELSE -1

BestVertex(m, a, colors, neighbor_colors) ==
    BestVertexFrom(m, a, colors, neighbor_colors, 0,
                   [best_vertex |-> -1, best_saturation |-> -1, best_degree |-> -1]).best_vertex

\* bug: the colour is added to the set of v itself, not to its neighbors' sets
AddToNeighbors_OwnSet(a, neighbor_colors, v, color) ==
    [u \in DOMAIN neighbor_colors |->
        IF u = v THEN neighbor_colors[u] \cup {color} ELSE neighbor_colors[u]]

\* for neighbor in graph.adj[v]: neighbor_colors[neighbor].add(color)
AddToNeighbors(a, neighbor_colors, v, color) ==
    [u \in DOMAIN neighbor_colors |->
        IF InList(u, a[v]) THEN neighbor_colors[u] \cup {color} ELSE neighbor_colors[u]]

\* dsatur_coloring(graph) is called
CallDsatur ==
    /\ \/ pc = "main" /\ (Fresh \/ (results.greedy # None /\ results.dsatur = None))
       \/ pc = "compare" /\ cmp.at = "dsatur" /\ results.dsatur = None
    /\ pc' = "dsatur"
    /\ ds' = [active |-> TRUE,
              colors |-> [i \in Range(n) |-> -1],
              neighbor_colors |-> [i \in Range(n) |-> {}],
              i |-> 0]
    /\ UNCHANGED <<n, par, adj, call, cmp, results, bt, gr, sa>>

\* the neighbor update of the selected vertex raises: neighbor_colors[neighbor]
\* is out of range for a neighbor >= n; dsatur_coloring is left
DsaturRaise ==
    /\ pc = "dsatur"
    /\ ds.i < n
    /\ LET v == BestVertex(n, adj, ds.colors, ds.neighbor_colors) IN
         v # -1 /\ ReadsOutOfRange(adj, ds.neighbor_colors, v)
    /\ results' = [results EXCEPT !.dsatur = Some(Raised("IndexError"))]
    /\ ds' = Idle
    /\ pc' = Caller
    /\ UNCHANGED <<n, par, adj, call, cmp, bt, gr, sa>>

\* one iteration of `for _ in range(n)`: select, color, update the neighbors;
\* best_vertex == -1 breaks out of the loop
DsaturStep ==
    /\ pc = "dsatur"
    /\ ds.i < n
    /\ LET v == BestVertex(n, adj, ds.colors, ds.neighbor_colors) IN
         v # -1 => ~ReadsOutOfRange(adj, ds.neighbor_colors, v)
    /\ LET v == BestVertex(n, adj, ds.colors, ds.neighbor_colors) IN
         IF v = -1
         THEN ds' = [ds EXCEPT !.i = n]
         ELSE LET color == FirstFree(ds.neighbor_colors[v]) IN
              ds' = [ds EXCEPT !.colors[v] = color,
                               !.neighbor_colors = AddToNeighbors(adj, @, v, color),
                               !.i = @ + 1]
    /\ UNCHANGED <<n, par, adj, call, cmp, pc, results, bt, gr, sa>>

\* the loop is over: count the colors, validate, return the DSATURResult
ReturnDsatur ==
    /\ pc = "dsatur"
    /\ ds.i = n
    /\ results' = [results EXCEPT !.dsatur = Some(ValidatedResult(n, adj, ds.colors))]
    /\ ds' = Idle
    /\ pc' = Caller
    /\ UNCHANGED <<n, par, adj, call, cmp, bt, gr, sa>>

\* --------------------------------------------------------------- annealing
\* bug: each edge is counted from its lower endpoint only, and still halved
CountConflicts_OneDirection(m, a, colors) ==
    Cardinality({p \in Range(m) \X (1 .. m) :
                    /\ p[2] <= Len(a[p[1]])
                    /\ p[1] < a[p[1]][p[2]]
                    /\ colors[p[1]] = colors[a[p[1]][p[2]]]}) \div 2

\* count_conflicts(graph, colors): matching (u, neighbor) pairs, halved
CountConflicts(m, a, colors) ==
    Cardinality({p \in Range(m) \X (1 .. m) :
                    /\ p[2] <= Len(a[p[1]])
                    /\ colors[p[1]] = colors[a[p[1]][p[2]]]}) \div 2

\* the counters `before` / `after`: neighbors of v holding colour c
NeighborsWith(a, colors, v, c) ==
    Cardinality({i \in 1 .. Len(a[v]) : colors[a[v][i]] = c})

\* the iterations of the 10000 that compare_all_algorithms asks for which
\* are explored
CompareMaxIter == MaxIter

\* who calls simulated_annealing(graph, k, max_iter): main with any
\* arguments, or compare_all_algorithms with its k_for_annealing
AnnealingCalled(k, max_iter) ==
    \/ /\ pc = "main"
       /\ Fresh \/ (results.dsatur # None /\ results.annealing = None)
       /\ n <= MaxSAN
    \/ /\ pc = "compare"
       /\ cmp.at = "annealing"
       /\ results.annealing = None
       /\ cmp.k_for_annealing = Some(k)
       /\ max_iter = CompareMaxIter

\* the set-up of simulated_annealing raises: random.randint(0, k - 1) is an
\* empty range (ValueError) when k <= 0 and a vertex needs a colour;
\* otherwise count_conflicts reads colors[v] for a neighbor v >= n (IndexError)
RandintRaises(m, k) == m > 0 /\ k <= 0
CountConflictsRaises(m, a) ==
    \E u \in Range(m) : \E i \in 1 .. Len(a[u]) : a[u][i] \notin Range(m)

\* simulated_annealing(graph, k, max_iter) is called and raises in its set-up
AnnealingRaise(k, max_iter) ==
    /\ AnnealingCalled(k, max_iter)
    /\ RandintRaises(n, k) \/ CountConflictsRaises(n, adj)
    /\ results' = [results EXCEPT !.annealing =
                     Some(Raised(IF RandintRaises(n, k) THEN "ValueError" ELSE "IndexError"))]
    /\ UNCHANGED <<n, par, adj, call, cmp, pc, bt, gr, ds, sa>>

\* simulated_annealing(graph, k, max_iter) is called: random initial coloring
CallAnnealing(k, max_iter) ==
    /\ AnnealingCalled(k, max_iter)
    /\ ~RandintRaises(n, k)
    /\ ~CountConflictsRaises(n, adj)
    /\ pc' = "annealing"
    /\ \E colors \in [Range(n) -> Range(k)] :
         sa' = [active |-> TRUE, k |-> k, max_iter |-> max_iter,
                colors |-> colors,
                cur_conf |-> CountConflicts(n, adj, colors),
                t |-> 0, at |-> "for", v |-> 0, old_c |-> 0, new_c |-> 0]
    /\ UNCHANGED <<n, par, adj, call, cmp, results, bt, gr, ds>>

\* head of an iteration of `for t in range(max_iter)` that does not break:
\* a random vertex and a first random new colour
SAPick ==
    /\ pc = "annealing"
    /\ sa.at = "for"
    /\ sa.t < sa.max_iter
    /\ sa.cur_conf # 0
    /\ \E v \in Range(n) : \E new_c \in Range(sa.k) :
         sa' = [sa EXCEPT !.at = "while", !.v = v, !.old_c = sa.colors[v], !.new_c = new_c]
    /\ UNCHANGED <<n, par, adj, call, cmp, pc, results, bt, gr, ds>>

\* body of `while new_c == old_c`: draw again
SAResample ==
    /\ pc = "annealing"
    /\ sa.at = "while"
    /\ sa.new_c = sa.old_c
    /\ \E new_c \in Range(sa.k) : sa' = [sa EXCEPT !.new_c = new_c]
    /\ UNCHANGED <<n, par, adj, call, cmp, pc, results, bt, gr, ds>>

\* bug: a move that leaves the number of conflicts unchanged is put to the draw
Accepts_OnlyDownhill(delta, coin) == delta < 0 \/ coin

\* does the iteration take the move?  delta <= 0: always; otherwise
\* random.random() < exp(-delta / T) with T = T0 * alpha^t > 0: the
\* probability lies strictly between 0 and 1, so the draw (coin) decides
Accepts(delta, coin) == delta <= 0 \/ coin

\* bug: the conflicts the old colour had are not taken off
NewConf_NoBefore(cur_conf, before, after) == cur_conf + after

\* new_conf = cur_conf - before + after
NewConf(cur_conf, before, after) == cur_conf - before + after

\* rest of the iteration: the neighbor-only delta and the acceptance test
\* (v, old_c and new_c are dead at the next loop head and are cleared)
SAMove ==
    /\ pc = "annealing"
    /\ sa.at = "while"
    /\ sa.new_c # sa.old_c
    /\ LET before == NeighborsWith(adj, sa.colors, sa.v, sa.old_c)
           after == NeighborsWith(adj, sa.colors, sa.v, sa.new_c)
           new_conf == NewConf(sa.cur_conf, before, after)
           delta == new_conf - sa.cur_conf
       IN  \E coin \in BOOLEAN :
             IF Accepts(delta, coin)
             THEN sa' = [sa EXCEPT !.colors[sa.v] = sa.new_c, !.cur_conf = new_conf,
                                   !.t = @ + 1, !.at = "for",
                                   !.v = 0, !.old_c = 0, !.new_c = 0]
             ELSE sa' = [sa EXCEPT !.t = @ + 1, !.at = "for",
                                   !.v = 0, !.old_c = 0, !.new_c = 0]
    /\ UNCHANGED <<n, par, adj, call, cmp, pc, results, bt, gr, ds>>

\* the SAResult built after the loop
AnnealingResult(m, a, k, colors, cur_conf) ==
    [coloring |-> IF cur_conf = 0 /\ IsProperColoring(m, a, colors)
                  THEN Some(colors) ELSE None,
     num_colors |-> k,
     conflicts |-> cur_conf]

\* the loop ended (range exhausted, or break on cur_conf == 0): return
ReturnAnnealing ==
    /\ pc = "annealing"
    /\ sa.at = "for"
    /\ (sa.t >= sa.max_iter \/ sa.cur_conf = 0)
    /\ results' = [results EXCEPT !.annealing =
                     Some(AnnealingResult(n, adj, sa.k, sa.colors, sa.cur_conf))]
    /\ sa' = Idle
    /\ pc' = Caller
    /\ UNCHANGED <<n, par, adj, call, cmp, bt, gr, ds>>

\* ------------------------------------------------------ annealing, threads
\* The functions random.randint and random.random are bound methods of one
\* hidden random.Random instance of the module `random`: every call reads and
\* advances its state, whoever calls.  The generator is deterministic; it is
\* stood for by a full-period linear congruential generator on 0 .. 15.
RngNext(s) == (5 * s + 3) % 16

\* random.randint(0, m - 1) drawn in generator state s (the state moves to
\* RngNext(s))
Randint(s, m) == (RngNext(s) \div 2) % m

\* random.random() < math.exp(-delta / T) drawn in generator state s; T stays
\* close to T0 = 1 in the iterations explored, and exp(-delta) is taken in
\* sixteenths
RandomBelowProb(s, delta) ==
    RngNext(s) < (IF delta = 1 THEN 6 ELSE IF delta = 2 THEN 2 ELSE 1)

Threads == {1, 2}

\* no threads are running
NoThreads == [seed |-> 0, rng |-> 0, th |-> << >>]

\* the locals of a simulated_annealing(graph, k, max_iter) call at its entry
ThreadStart(k, max_iter) ==
    [at |-> "init", k |-> k, max_iter |-> max_iter, colors |-> << >>, cur_conf |-> 0,
     t |-> 0, v |-> 0, old_c |-> 0, new_c |-> 0, result |-> None]

\* colors.append(c) on the list colors (a function on 0 .. len-1)
ListAppend(colors, c) ==
    [i \in 0 .. Cardinality(DOMAIN colors) |-> IF i \in DOMAIN colors THEN colors[i] ELSE c]

\* one step of a simulated_annealing invocation with locals th, taken with the
\* generator in state s: the next locals and the next generator state.  A
\* step holds at most one call of `random`.
ThreadStep(th, s) ==
    CASE th.at = "init" ->
           IF Cardinality(DOMAIN th.colors) < n
           THEN [th |-> [th EXCEPT !.colors = ListAppend(@, Randint(s, th.k))],
                 rng |-> RngNext(s)]
           ELSE [th |-> [th EXCEPT !.cur_conf = CountConflicts(n, adj, th.colors),
                                   !.at = "for"],
                 rng |-> s]
      [] th.at = "for" ->
           IF th.t >= th.max_iter \/ th.cur_conf = 0
           THEN [th |-> [th EXCEPT !.at = "done",
                                   !.result = Some(AnnealingResult(n, adj, th.k, th.colors,
                                                                   th.cur_conf))],
                 rng |-> s]
           ELSE [th |-> [th EXCEPT !.at = "color", !.v = Randint(s, n),
                                   !.old_c = th.colors[Randint(s, n)]],
                 rng |-> RngNext(s)]
      [] th.at = "color" ->
           [th |-> [th EXCEPT !.at = "while", !.new_c = Randint(s, th.k)],
            rng |-> RngNext(s)]
      [] th.at = "while" ->
           IF th.new_c = th.old_c
           THEN [th |-> [th EXCEPT !.new_c = Randint(s, th.k)], rng |-> RngNext(s)]
           ELSE LET before == NeighborsWith(adj, th.colors, th.v, th.old_c)
                    after == NeighborsWith(adj, th.colors, th.v, th.new_c)
                    new_conf == NewConf(th.cur_conf, before, after)
                IN  IF new_conf - th.cur_conf <= 0
                    THEN [th |-> [th EXCEPT !.colors[th.v] = th.new_c,
                                            !.cur_conf = new_conf,
                                            !.t = @ + 1, !.at = "for"],
                          rng |-> s]
                    ELSE [th |-> [th EXCEPT !.at = "accept"], rng |-> s]
      [] th.at = "accept" ->
           LET before == NeighborsWith(adj, th.colors, th.v, th.old_c)
               after == NeighborsWith(adj, th.colors, th.v, th.new_c)
               new_conf == NewConf(th.cur_conf, before, after)
           IN  IF RandomBelowProb(s, new_conf - th.cur_conf)
               THEN [th |-> [th EXCEPT !.colors[th.v] = th.new_c, !.cur_conf = new_conf,
                                       !.t = @ + 1, !.at = "for"],
                     rng |-> RngNext(s)]
               ELSE [th |-> [th EXCEPT !.t = @ + 1, !.at = "for"], rng |-> RngNext(s)]

\* the threads and the generator after thread i has taken its next step
AfterStep(i) ==
    LET r == ThreadStep(par.th[i], par.rng) IN
    [par EXCEPT !.th[i] = r.th, !.rng = r.rng]

\* colors = [random.randint(0, k - 1) for _ in range(n)]; count_conflicts
ThreadInit(i) ==
    /\ par.th # << >>
    /\ par.th[i].at = "init"
    /\ par' = AfterStep(i)
    /\ UNCHANGED <<n, adj, call, cmp, pc, results, bt, gr, ds, sa>>

\* head of the for loop: return, or draw the vertex
ThreadFor(i) ==
    /\ par.th # << >>
    /\ par.th[i].at = "for"
    /\ par' = AfterStep(i)
    /\ UNCHANGED <<n, adj, call, cmp, pc, results, bt, gr, ds, sa>>

\* the first draw of new_c
ThreadColor(i) ==
    /\ par.th # << >>
    /\ par.th[i].at = "color"
    /\ par' = AfterStep(i)
    /\ UNCHANGED <<n, adj, call, cmp, pc, results, bt, gr, ds, sa>>

\* `while new_c == old_c`: draw again, or go on to the delta
ThreadWhile(i) ==
    /\ par.th # << >>
    /\ par.th[i].at = "while"
    /\ par' = AfterStep(i)
    /\ UNCHANGED <<n, adj, call, cmp, pc, results, bt, gr, ds, sa>>

\* the draw of the acceptance test
ThreadAccept(i) ==
    /\ par.th # << >>
    /\ par.th[i].at = "accept"
    /\ par' = AfterStep(i)
    /\ UNCHANGED <<n, adj, call, cmp, pc, results, bt, gr, ds, sa>>

\* -------------------------------------------------- compare_all_algorithms
\* compare_all_algorithms is not running
NotComparing == [at |-> "idle", k_for_annealing |-> None, report |-> << >>]

\* the entry filed for a colorer: the fields of its result object and
\* `success`, or the except branch's error entry (the times are not modelled)
ReportEntry(r) ==
    IF IsRaised(r) THEN [error |-> r.raised, success |-> FALSE]
    ELSE r @@ [success |-> r.coloring # None]

\* the entry filed for simulated_annealing carries k_used as well
AnnealingEntry(r, k) ==
    IF IsRaised(r) THEN [error |-> r.raised, success |-> FALSE]
    ELSE r @@ [success |-> r.coloring # None, k_used |-> k]

\* bug: an exception in one colorer ends the comparison
StageAfter_AbortOnError(at, r) ==
    IF IsRaised(r) THEN "returned"
    ELSE CASE at = "backtracking" -> "greedy"
           [] at = "greedy" -> "dsatur"
           [] at = "dsatur" -> "derive"
           [] at = "annealing" -> "returned"

\* the try block that follows the one of colorer `at`, whatever it handed back
StageAfter(at, r) ==
    CASE at = "backtracking" -> "greedy"
      [] at = "greedy" -> "dsatur"
      [] at = "dsatur" -> "derive"
      [] at = "annealing" -> "returned"

\* bug: the estimate is used although colorers succeeded
DerivedK_AlwaysEstimate(report, a) ==
    (IF DOMAIN a # {} THEN SetMax({Degree(a, v) : v \in DOMAIN a}) ELSE 0) + 1

\* the k chosen when k_for_annealing is None: min_colors over the successful
\* entries, or max_degree + 1 when there is none
DerivedK(report, a) ==
    LET counts == {report[alg].num_colors :
                     alg \in {x \in {"backtracking", "greedy", "dsatur"} \cap DOMAIN report :
                                report[x].success}}
    IN  IF counts = {}
        THEN (IF DOMAIN a # {} THEN SetMax({Degree(a, v) : v \in DOMAIN a}) ELSE 0) + 1
        ELSE SetMin(counts)

\* compare_all_algorithms(graph, k_for_annealing) is called
CallCompare(k_for_annealing) ==
    /\ pc = "main"
    /\ Fresh
    /\ cmp.at = "idle"
    /\ cmp' = [at |-> "backtracking", k_for_annealing |-> k_for_annealing, report |-> << >>]
    /\ pc' = "compare"
    /\ UNCHANGED <<n, par, adj, call, results, bt, gr, ds, sa>>

\* the colorer of the current try block came back: its entry is filed (result
\* fields or the except branch) and control moves on; after the annealing
\* entry the dict is returned
CompareRecord ==
    /\ pc = "compare"
    /\ cmp.at \in Algorithms
    /\ results[cmp.at] # None
    /\ LET r == results[cmp.at][1]
           next == StageAfter(cmp.at, r)
       IN  /\ cmp' = [cmp EXCEPT
                        !.report = DictSet(@, cmp.at,
                                           IF cmp.at = "annealing"
                                           THEN AnnealingEntry(r, cmp.k_for_annealing[1])
                                           ELSE ReportEntry(r)),
                        !.at = next]
           /\ pc' = IF next = "returned" THEN "main" ELSE "compare"
    /\ UNCHANGED <<n, par, adj, call, results, bt, gr, ds, sa>>

\* `if k_for_annealing is None`: derive k
CompareDeriveK ==
    /\ pc = "compare"
    /\ cmp.at = "derive"
    /\ cmp' = [cmp EXCEPT
                 !.k_for_annealing = IF @ = None THEN Some(DerivedK(cmp.report, adj)) ELSE @,
                 !.at = "annealing"]
    /\ UNCHANGED <<n, par, adj, call, pc, results, bt, gr, ds, sa>>

\* simulated_annealing(graph, k=k_for_annealing, max_iter=10000) inside its try
CompareRunAnnealing ==
    /\ pc = "compare"
    /\ cmp.at = "annealing"
    /\ \/ CallAnnealing(cmp.k_for_annealing[1], CompareMaxIter)
       \/ AnnealingRaise(cmp.k_for_annealing[1], CompareMaxIter)

\* ------------------------------------------------------ graph construction
\* no Graph method has been called on the graph yet
NoCall == [count |-> 0, method |-> "none", u |-> 0, v |-> 0, raised |-> FALSE, value |-> None]

\* the caller calls graph.add_edge(u, v) and catches what it raises
GraphAddEdge(u, v) ==
    /\ pc = "main"
    /\ Fresh
    /\ call.count < MaxCalls
    /\ LET r == AddEdgeOutcome(adj, u, v) IN
         /\ adj' = r.adj
         /\ call' = [count |-> call.count + 1, method |-> "add_edge",
                     u |-> u, v |-> v, raised |-> r.raised, value |-> None]
    /\ UNCHANGED <<n, par, cmp, pc, results, bt, gr, ds, sa>>

\* the caller calls graph.degree(v) and catches what it raises
GraphDegree(v) ==
    /\ pc = "main"
    /\ Fresh
    /\ LET r == DegreeOutcome(adj, v) IN
         call' = [count |-> call.count, method |-> "degree",
                  u |-> v, v |-> v, raised |-> r.raised, value |-> r.value]
    /\ UNCHANGED <<n, par, adj, cmp, pc, results, bt, gr, ds, sa>>

\* ------------------------------------------------------------ specification
Init ==
    /\ n \in 0 .. MaxN
    /\ \E E \in SUBSET AllPairs(n) : adj = FromEdgeList(n, SortedEdges(E))
    /\ call = NoCall
    /\ cmp = NotComparing
    /\ pc = "main"
    /\ results = [backtracking |-> None, greedy |-> None, dsatur |-> None, annealing |-> None]
    /\ bt = Idle
    /\ gr = Idle
    /\ ds = Idle
    /\ sa = Idle
    /\ par = NoThreads

Next ==
    \/ \E f \in BOOLEAN : CallBacktracking(f)
    \/ DfsEnter
    \/ DfsTry
    \/ DfsUndo
    \/ ReturnBacktracking
    \/ \E f \in BOOLEAN : CallGreedy(f)
    \/ GreedyStep
    \/ ReturnGreedy
    \/ CallDsatur
    \/ DsaturStep
    \/ ReturnDsatur
    \/ \E k \in 1 .. MaxK : \E max_iter \in 0 .. MaxIter : CallAnnealing(k, max_iter)
    \/ SAPick
    \/ SAResample
    \/ SAMove
    \/ ReturnAnnealing

Spec == Init /\ [][Next]_vars

\* the interpreter keeps executing the running call: a step that can be taken
\* is eventually taken
LiveSpec == Spec /\ WF_vars(Next)

\* a caller that only runs backtracking_coloring
BacktrackingNext ==
    \/ \E f \in BOOLEAN : CallBacktracking(f)
    \/ DfsEnter
    \/ DfsTry
    \/ DfsUndo
    \/ ReturnBacktracking

BacktrackingSpec == Init /\ [][BacktrackingNext]_vars /\ WF_vars(BacktrackingNext)

\* a caller that only runs greedy_coloring
GreedyNext ==
    \/ \E f \in BOOLEAN : CallGreedy(f)
    \/ GreedyStep
    \/ ReturnGreedy

GreedySpec == Init /\ [][GreedyNext]_vars

\* a caller that only runs dsatur_coloring
DsaturNext ==
    \/ CallDsatur
    \/ DsaturStep
    \/ ReturnDsatur

DsaturSpec == Init /\ [][DsaturNext]_vars

\* a caller that only runs simulated_annealing
AnnealingNext ==
    \/ \E k \in 1 .. MaxK : \E max_iter \in 0 .. MaxIter : CallAnnealing(k, max_iter)
    \/ SAPick
    \/ SAResample
    \/ SAMove
    \/ ReturnAnnealing

AnnealingSpec == Init /\ [][AnnealingNext]_vars /\ WF_vars(AnnealingNext)

\* Graph(n) was just constructed
GraphInit ==
    /\ n \in 0 .. MaxN
    /\ adj = NewGraph(n)
    /\ call = NoCall
    /\ cmp = NotComparing
    /\ pc = "main"
    /\ results = [backtracking |-> None, greedy |-> None, dsatur |-> None, annealing |-> None]
    /\ bt = Idle
    /\ gr = Idle
    /\ ds = Idle
    /\ sa = Idle
    /\ par = NoThreads

\* a caller that builds the graph with in-range vertices only
BuildNext ==
    \/ \E u \in Range(n) : \E v \in Range(n) : GraphAddEdge(u, v)
    \/ \E v \in Range(n) : GraphDegree(v)

BuildSpec == GraphInit /\ [][BuildNext]_vars

\* a caller that passes any index, one below and one above the range included
GraphNext ==
    \/ \E u \in -1 .. n : \E v \in -1 .. n : GraphAddEdge(u, v)
    \/ \E v \in -1 .. n : GraphDegree(v)

GraphSpec == GraphInit /\ [][GraphNext]_vars

\* what the caller of compare_all_algorithms holds: a graph from
\* Graph.from_edge_list, possibly after one call g.add_edge(u, n) whose
\* KeyError it caught
CompareInit ==
    /\ n \in 0 .. MaxSAN
    /\ \E E \in SUBSET AllPairs(n) : \E failed \in {{}} \cup {{u} : u \in Range(n)} :
         LET g == FromEdgeList(n, SortedEdges(E)) IN
         IF failed = {}
         THEN adj = g /\ call = NoCall
         ELSE \E u \in failed :
                /\ adj = AddEdgeOutcome(g, u, n).adj
                /\ call = [count |-> 1, method |-> "add_edge", u |-> u, v |-> n,
                           raised |-> TRUE, value |-> None]
    /\ cmp = NotComparing
    /\ pc = "main"
    /\ results = [backtracking |-> None, greedy |-> None, dsatur |-> None, annealing |-> None]
    /\ bt = Idle
    /\ gr = Idle
    /\ ds = Idle
    /\ sa = Idle
    /\ par = NoThreads

\* a caller that calls backtracking, greedy and DSATUR directly or runs
\* compare_all_algorithms, which also calls simulated_annealing
CompareNext ==
    \/ BacktrackingNext
    \/ DfsRaise
    \/ GreedyNext
    \/ GreedyRaise
    \/ DsaturNext
    \/ DsaturRaise
    \/ SAPick
    \/ SAResample
    \/ SAMove
    \/ ReturnAnnealing
    \/ \E k \in {None} \cup {Some(k) : k \in 0 .. MaxK} : CallCompare(k)
    \/ CompareRecord
    \/ CompareDeriveK
    \/ CompareRunAnnealing

CompareSpec == CompareInit /\ [][CompareNext]_vars

\* a caller that holds a graph built by add_edge on in-range vertices and runs
\* compare_all_algorithms(graph) with k_for_annealing left at None (or calls
\* the deterministic colorers directly); on such a graph no colorer reads out
\* of range.  The steps of the program are taken as long as one is possible,
\* and a re-draw of new_c does not return the old colour forever.
DefaultCompareInit ==
    /\ n \in 0 .. MaxSAN
    /\ \E E \in SUBSET AllPairs(n) : adj = FromEdgeList(n, SortedEdges(E))
    /\ call = NoCall
    /\ cmp = NotComparing
    /\ pc = "main"
    /\ results = [backtracking |-> None, greedy |-> None, dsatur |-> None, annealing |-> None]
    /\ bt = Idle
    /\ gr = Idle
    /\ ds = Idle
    /\ sa = Idle
    /\ par = NoThreads

DefaultCompareNext ==
    \/ BacktrackingNext
    \/ GreedyNext
    \/ DsaturNext
    \/ SAPick
    \/ SAResample
    \/ SAMove
    \/ ReturnAnnealing
    \/ CallCompare(None)
    \/ CompareRecord
    \/ CompareDeriveK
    \/ CompareRunAnnealing

DefaultCompareSpec ==
    DefaultCompareInit /\ [][DefaultCompareNext]_vars /\ WF_vars(DefaultCompareNext)

\* random.seed(seed), then two threads each call simulated_annealing on the
\* graph (k >= 2: with k = 1 the re-draw loop has no exit)
ThreadsInit ==
    /\ n \in 0 .. MaxSAN
    /\ \E E \in SUBSET AllPairs(n) : adj = FromEdgeList(n, SortedEdges(E))
    /\ call = NoCall
    /\ cmp = NotComparing
    /\ pc = "main"
    /\ results = [backtracking |-> None, greedy |-> None, dsatur |-> None, annealing |-> None]
    /\ bt = Idle
    /\ gr = Idle
    /\ ds = Idle
    /\ sa = Idle
    /\ \E seed \in 0 .. MaxSeed : \E k \in 2 .. MaxK : \E max_iter \in [Threads -> 0 .. MaxIter] :
         par = [seed |-> seed, rng |-> seed,
                th |-> [i \in Threads |-> ThreadStart(k, max_iter[i])]]

ThreadsNext ==
    \E i \in Threads :
        \/ ThreadInit(i)
        \/ ThreadFor(i)
        \/ ThreadColor(i)
        \/ ThreadWhile(i)
        \/ ThreadAccept(i)

ThreadsSpec == ThreadsInit /\ [][ThreadsNext]_vars

\* ------------------------------------------------------------------ claims
Returned(alg) == results[alg] # None
Result(alg) == results[alg][1]

\* u and v are joined by an edge
Adjacent(u, v) == InList(v, adj[u]) \/ InList(u, adj[v])

\* colors has one entry per vertex and no edge has equal endpoints
Proper(colors) ==
    /\ DOMAIN colors = Range(n)
    /\ \A u \in Range(n) : \A v \in Range(n) : Adjacent(u, v) => colors[u] # colors[v]

\* the graph has a proper coloring with colours 0 .. k-1
KColorable(k) == \E f \in [Range(n) -> Range(k)] : Proper(f)

ColorsOf(colors) == {colors[i] : i \in DOMAIN colors}

MaxDegree == IF n = 0 THEN 0 ELSE SetMax({Degree(adj, v) : v \in Range(n)})

\* edges whose endpoints share a colour
ConflictEdges(colors) ==
    Cardinality({e \in AllPairs(n) : Adjacent(e[1], e[2]) /\ colors[e[1]] = colors[e[2]]})

IsCycle4 == n = 4 /\ adj = FromEdgeList(4, <<<<0, 1>>, <<0, 3>>, <<1, 2>>, <<2, 3>>>>)
IsTriangle == n = 3 /\ \A v \in Range(n) : Degree(adj, v) = 2
IsPath3 == n = 3 /\ adj = FromEdgeList(3, <<<<0, 1>>, <<1, 2>>>>)

\* C1: backtracking_coloring returns the chromatic number: its coloring is
\* proper, uses num_colors colours, and no proper coloring uses fewer.
\* (results changes only when a colorer returns, so it is read in the caller.)
C1_BacktrackingOptimal ==
    (pc = "main" /\ Returned("backtracking")) =>
        LET r == Result("backtracking") IN
        /\ r.coloring # None
        /\ Proper(r.coloring[1])
        /\ Cardinality(ColorsOf(r.coloring[1])) = r.num_colors
        /\ \A k \in 0 .. (r.num_colors - 1) : ~KColorable(k)

C1_Witness ==
    /\ Returned("backtracking")
    /\ IsCycle4
    /\ Result("backtracking").num_colors = 2

\* C2: every coloring a colorer returns has length n and gives the two
\* endpoints of every edge different colours.
C2_ReturnedColoringsProper ==
    pc = "main" =>
        \A alg \in Algorithms :
            (Returned(alg) /\ Result(alg).coloring # None) => Proper(Result(alg).coloring[1])

C2_Witness ==
    /\ \A alg \in Algorithms : Returned(alg) /\ Result(alg).coloring # None
    /\ IsPath3

\* C3: backtracking_coloring never reports failure, and for n = 0 it returns
\* the empty coloring with 0 colours.
C3_BacktrackingNeverFails ==
    Returned("backtracking") =>
        LET r == Result("backtracking") IN
        /\ r.coloring # None
        /\ r.num_colors # -1
        /\ (n = 0 => r.coloring = Some(<< >>) /\ r.num_colors = 0)

C3_Witness ==
    /\ Returned("backtracking")
    /\ n = 0
    /\ Result("backtracking").num_colors = 0

\* C4: the backtracking colour count is at most the greedy one, the DSATUR
\* one, and the budget k of an annealing run that returned a coloring.
C4_BacktrackingAtMostOthers ==
    Returned("backtracking") =>
        LET b == Result("backtracking").num_colors IN
        /\ Returned("greedy") => b <= Result("greedy").num_colors
        /\ Returned("dsatur") => b <= Result("dsatur").num_colors
        /\ (Returned("annealing") /\ Result("annealing").coloring # None)
              => b <= Result("annealing").num_colors

C4_Witness ==
    /\ \A alg \in Algorithms : Returned(alg)
    /\ Result("annealing").coloring # None
    /\ Result("backtracking").num_colors = 2
    /\ Result("greedy").num_colors = 2
    /\ Result("annealing").num_colors = 2

\* a run in which greedy needs strictly more colours than backtracking
C4_StrictWitness ==
    /\ Returned("backtracking")
    /\ Returned("greedy")
    /\ Result("backtracking").num_colors < Result("greedy").num_colors

\* C5: greedy_coloring and dsatur_coloring return at most max_degree + 1 colours.
C5_AtMostMaxDegreePlusOne ==
    \A alg \in {"greedy", "dsatur"} :
        Returned(alg) => Result(alg).num_colors <= MaxDegree + 1

C5_Witness ==
    /\ Returned("greedy")
    /\ Returned("dsatur")
    /\ IsTriangle
    /\ Result("greedy").num_colors = MaxDegree + 1
    /\ Result("dsatur").num_colors = MaxDegree + 1

\* C6: the backtracking search terminates: the recursion is never deeper than
\* n + 1 calls and a started backtracking_coloring eventually returns.
C6_BacktrackingTerminates ==
    /\ [](pc = "backtracking" => Len(bt.stack) <= n + 1)
    /\ ((pc = "backtracking") ~> Returned("backtracking"))

C6_Witness ==
    /\ pc = "backtracking"
    /\ n = 3
    /\ Len(bt.stack) = n + 1
    /\ bt.nodes_visited > n + 1

\* C7: simulated_annealing runs at most max_iter iterations and every started
\* call, and every iteration in it, completes.
C7_AnnealingTerminates ==
    /\ [](pc = "annealing" => sa.t <= sa.max_iter)
    /\ ((pc = "annealing") ~> Returned("annealing"))

\* C8: a run whose budget k is below the chromatic number returns
\* conflicts > 0 and no coloring.
C8_BelowChromaticFails ==
    [][(pc = "annealing" /\ pc' = "main" /\ ~KColorable(sa.k)) =>
          /\ results'.annealing[1].conflicts > 0
          /\ results'.annealing[1].coloring = None]_vars

C8_Witness ==
    /\ Returned("annealing")
    /\ IsTriangle
    /\ Result("annealing").num_colors = 2
    /\ Result("annealing").conflicts > 0
    /\ Result("annealing").coloring = None

\* C9: simulated_annealing returns a coloring exactly when the returned
\* conflicts is 0; with the cap exhausted and conflicts left it returns no
\* coloring and conflicts is the number of conflicting edges of the final
\* working coloring.
C9_ColoringIffNoConflicts ==
    [][(pc = "annealing" /\ pc' = "main") =>
          LET r == results'.annealing[1] IN
          /\ (r.coloring # None) <=> (r.conflicts = 0)
          /\ (sa.t >= sa.max_iter /\ sa.cur_conf > 0) =>
                /\ r.coloring = None
                /\ r.conflicts = ConflictEdges(sa.colors)]_vars

C9_Witness ==
    /\ Returned("annealing")
    /\ n = 3
    /\ Result("annealing").coloring = None
    /\ Result("annealing").conflicts = 2

\* C10: a result that carries no coloring has num_colors = -1.
C10_FailureReportsMinusOne ==
    \A alg \in Algorithms :
        (Returned(alg) /\ Result(alg).coloring = None) => Result(alg).num_colors = -1

\* C11: a coloring returned by backtracking, greedy or DSATUR has no -1 entry
\* and its colours are exactly 0 .. num_colors - 1, so num_colors is the
\* number of distinct colours.
C11_ColoursNormalised ==
    pc = "main" =>
        \A alg \in {"backtracking", "greedy", "dsatur"} :
            (Returned(alg) /\ Result(alg).coloring # None) =>
                LET colors == Result(alg).coloring[1] IN
                /\ -1 \notin ColorsOf(colors)
                /\ ColorsOf(colors) = Range(Result(alg).num_colors)
                /\ Cardinality(ColorsOf(colors)) = Result(alg).num_colors

C11_Witness ==
    /\ pc = "main"
    /\ \A alg \in {"backtracking", "greedy", "dsatur"} :
          /\ Returned(alg)
          /\ Result(alg).coloring # None
          /\ Result(alg).num_colors = 3
    /\ n = 4

\* C12: when simulated_annealing returns a coloring, num_colors is the number
\* of distinct colours of that coloring and the colours are exactly
\* 0 .. num_colors - 1.
C12_AnnealingColoursNormalised ==
    (Returned("annealing") /\ Result("annealing").coloring # None) =>
        LET colors == Result("annealing").coloring[1] IN
        /\ Cardinality(ColorsOf(colors)) = Result("annealing").num_colors
        /\ ColorsOf(colors) = Range(Result("annealing").num_colors)

\* the step is a call graph.add_edge(u, v)
IsAddEdgeStep(u, v) ==
    /\ call'.method = "add_edge"
    /\ call'.count = call.count + 1
    /\ call'.u = u
    /\ call'.v = v

\* C13: after any add_edge calls on in-range vertices no vertex is in its own
\* neighbor list and no list holds a vertex twice; add_edge(v, v) and a
\* repeated add_edge(u, v) or add_edge(v, u) leave every neighbor list unchanged.
C13_NoLoopsNoDuplicates ==
    /\ [](\A u \in Range(n) :
            /\ ~InList(u, adj[u])
            /\ \A i \in 1 .. Len(adj[u]) : \A j \in 1 .. Len(adj[u]) :
                  adj[u][i] = adj[u][j] => i = j)
    /\ [][\A u \in Range(n) : \A v \in Range(n) :
            (IsAddEdgeStep(u, v) /\ (u = v \/ InList(v, adj[u]) \/ InList(u, adj[v])))
                => adj' = adj]_vars

C13_Witness ==
    /\ n = 3
    /\ call.method = "add_edge"
    /\ call.count = 3
    /\ call.u = 1
    /\ call.v = 0
    /\ adj[0] = <<1, 2>>
    /\ adj[1] = <<0>>

\* C14: after any add_edge calls on in-range vertices the adjacency is
\* symmetric: v is in adj[u] exactly when u is in adj[v].
C14_AdjacencySymmetric ==
    \A u \in Range(n) : \A v \in Range(n) : InList(v, adj[u]) <=> InList(u, adj[v])

C14_Witness ==
    /\ n = 3
    /\ call.method = "add_edge"
    /\ call.count = 2
    /\ adj[0] = <<2>>
    /\ adj[1] = <<2>>
    /\ adj[2] = <<0, 1>>

\* C15: an add_edge call or a degree query ends in an error exactly when one
\* of its indices is outside 0 .. n-1, u == v included.
C15_OutOfRangeIsAnError ==
    /\ call.method = "add_edge" =>
          (call.raised <=> (call.u \notin Range(n) \/ call.v \notin Range(n)))
    /\ call.method = "degree" =>
          (call.raised <=> call.u \notin Range(n))

\* the colour counts of the entries filed with success True
SuccessfulCounts(report) ==
    {report[alg].num_colors :
        alg \in {x \in {"backtracking", "greedy", "dsatur"} : report[x].success}}

\* C16: with k_for_annealing None compare_all_algorithms takes as budget the
\* smallest num_colors of the successful backtracking, greedy and dsatur
\* entries, or max_degree + 1 (1 for n = 0) when none succeeded; a supplied
\* k_for_annealing is kept; that budget is the k simulated_annealing is
\* called with and the k_used of the annealing entry.
C16_AnnealingBudget ==
    [][/\ (cmp.at = "derive" /\ cmp'.at = "annealing") =>
            cmp'.k_for_annealing =
                IF cmp.k_for_annealing # None THEN cmp.k_for_annealing
                ELSE IF SuccessfulCounts(cmp.report) = {} THEN Some(MaxDegree + 1)
                ELSE Some(SetMin(SuccessfulCounts(cmp.report)))
       /\ (cmp.at = "annealing" /\ pc = "compare" /\ pc' = "annealing") =>
            sa'.k = cmp.k_for_annealing[1]
       /\ (cmp.at = "annealing" /\ cmp'.at = "returned"
              /\ "k_used" \in DOMAIN cmp'.report.annealing) =>
            cmp'.report.annealing.k_used = cmp.k_for_annealing[1]]_vars

C16_Witness ==
    /\ cmp.at = "returned"
    /\ IsTriangle
    /\ call = NoCall
    /\ cmp.report.backtracking.num_colors = 3
    /\ cmp.report.annealing.success
    /\ cmp.report.annealing.k_used = 3

\* a comparison in which no colorer succeeded and the estimate is the budget
C16_EstimateWitness ==
    /\ cmp.at = "annealing"
    /\ n = 3
    /\ \A alg \in {"backtracking", "greedy", "dsatur"} : ~cmp.report[alg].success
    /\ MaxDegree = 3
    /\ cmp.k_for_annealing = Some(4)

\* C17: the report compare_all_algorithms returns has exactly the four
\* entries, each with a boolean success; a colorer that raised has the entry
\* (error, success False), and every colorer was run whatever the ones before
\* it did.
C17_FourEntries ==
    cmp.at = "returned" =>
        /\ DOMAIN cmp.report = Algorithms
        /\ \A alg \in Algorithms :
              /\ "success" \in DOMAIN cmp.report[alg]
              /\ cmp.report[alg].success \in BOOLEAN
              /\ Returned(alg)
              /\ IsRaised(Result(alg)) =>
                    /\ DOMAIN cmp.report[alg] = {"error", "success"}
                    /\ cmp.report[alg].success = FALSE

C17_Witness ==
    /\ cmp.at = "returned"
    /\ n = 3
    /\ IsRaised(Result("backtracking"))
    /\ \A alg \in Algorithms : Returned(alg) /\ ~cmp.report[alg].success

\* a comparison in which only simulated_annealing raised
C17_AnnealingErrorWitness ==
    /\ cmp.at = "returned"
    /\ IsPath3
    /\ \A alg \in {"backtracking", "greedy", "dsatur"} : cmp.report[alg].success
    /\ cmp.report.annealing = [error |-> "ValueError", success |-> FALSE]

\* C18: no step of a colorer and no step of compare_all_algorithms changes
\* the graph: n and every neighbor list stay as they were.
C18_GraphUnchanged ==
    [][n' = n /\ adj' = adj]_vars

C18_Witness ==
    /\ cmp.at = "returned"
    /\ IsPath3
    /\ \A alg \in Algorithms : cmp.report[alg].success

\* v is processed before w: descending degree with ties in ascending index,
\* or ascending index when the degree order is off
Before(use_degree_order, v, w) ==
    IF use_degree_order
    THEN \/ Degree(adj, v) > Degree(adj, w)
         \/ (Degree(adj, v) = Degree(adj, w) /\ v < w)
    ELSE v < w

\* the smallest non-negative colour outside the set taken
SmallestFree(taken) == CHOOSE c \in 0 .. Cardinality(taken) :
                          c \notin taken /\ \A d \in 0 .. (c - 1) : d \in taken

\* the colour the greedy rule gives v: the smallest one held by none of the
\* neighbors processed before v
RECURSIVE GreedyColour(_, _)
GreedyColour(use_degree_order, v) ==
    SmallestFree({GreedyColour(use_degree_order, w) :
                    w \in {x \in Range(n) : Adjacent(v, x) /\ Before(use_degree_order, x, v)}})

\* C19: greedy_coloring takes the vertices in descending degree, ties in
\* ascending index (ascending index when use_degree_order is False), gives
\* each the smallest colour no already-colored neighbor holds, and its result
\* is determined by the graph and the flag.
C19_GreedyRule ==
    [][/\ (pc = "greedy" /\ pc' = "greedy") =>
            \E v \in Range(n) :
                /\ gr.colors[v] = -1
                /\ \A w \in Range(n) :
                      (w # v /\ gr.colors[w] = -1) => Before(gr.use_degree_order, v, w)
                /\ gr'.colors = [gr.colors EXCEPT ![v] =
                      SmallestFree({gr.colors[w] : w \in {x \in Range(n) :
                                       Adjacent(v, x) /\ gr.colors[x] # -1}})]
       /\ (pc = "greedy" /\ pc' # "greedy") =>
            /\ results'.greedy[1].coloring =
                  Some([v \in Range(n) |-> GreedyColour(gr.use_degree_order, v)])
            /\ results'.greedy[1].num_colors =
                  Cardinality({GreedyColour(gr.use_degree_order, v) : v \in Range(n)})]_vars

C19_Witness ==
    /\ Returned("greedy")
    /\ n = 4
    /\ adj = FromEdgeList(4, <<<<0, 3>>, <<1, 2>>, <<1, 3>>>>)
    /\ Result("greedy").coloring = Some([v \in Range(4) |-> IF v \in {1, 0} THEN 0 ELSE 1])

\* the colours held by the colored neighbors of v under colors
NeighborColours(colors, v) ==
    {colors[w] : w \in {x \in Range(n) : Adjacent(v, x) /\ colors[x] # -1}}

\* the number of distinct colours among the colored neighbors of v
Saturation(colors, v) == Cardinality(NeighborColours(colors, v))

\* C20: every DSATUR step colors the uncolored vertex of largest saturation,
\* ties going to the larger degree and then to the lower index, with the
\* smallest colour none of its colored neighbors holds.
C20_DsaturRule ==
    [][(pc = "dsatur" /\ pc' = "dsatur") =>
          \E v \in Range(n) :
              /\ ds.colors[v] = -1
              /\ \A w \in Range(n) :
                    (w # v /\ ds.colors[w] = -1) =>
                        \/ Saturation(ds.colors, v) > Saturation(ds.colors, w)
                        \/ /\ Saturation(ds.colors, v) = Saturation(ds.colors, w)
                           /\ \/ Degree(adj, v) > Degree(adj, w)
                              \/ (Degree(adj, v) = Degree(adj, w) /\ v < w)
              /\ ds'.colors = [ds.colors EXCEPT ![v] =
                                 SmallestFree(NeighborColours(ds.colors, v))]]_vars

C20_Witness ==
    /\ pc = "dsatur"
    /\ n = 4
    /\ adj = FromEdgeList(4, <<<<0, 3>>, <<1, 2>>, <<1, 3>>>>)
    /\ ds.colors = [v \in Range(4) |-> IF v = 1 THEN 0 ELSE IF v = 3 THEN 1 ELSE -1]

\* the graph has an edge
HasEdge == \E v \in Range(n) : adj[v] # << >>

\* C21: on every bipartite graph with at least one edge dsatur_coloring
\* returns a proper coloring with num_colors = 2.
C21_DsaturBipartite ==
    (Returned("dsatur") /\ HasEdge /\ KColorable(2)) =>
        LET r == Result("dsatur") IN
        /\ r.coloring # None
        /\ Proper(r.coloring[1])
        /\ r.num_colors = 2

C21_Witness ==
    /\ Returned("dsatur")
    /\ IsCycle4
    /\ Result("dsatur").num_colors = 2

\* the result of a simulated_annealing invocation with locals th that runs
\* alone, the generator being in state s
RECURSIVE AloneResult(_, _)
AloneResult(th, s) ==
    IF th.at = "done" THEN th.result
    ELSE LET r == ThreadStep(th, s) IN AloneResult(r.th, r.rng)

\* C22: interleaved colorer invocations share no mutable state, so each one
\* returns what it returns when it runs alone from the same starting state.
C22_InterleavingIndependent ==
    par.th # << >> =>
        \A i \in Threads :
            par.th[i].at = "done" =>
                par.th[i].result =
                    AloneResult(ThreadStart(par.th[i].k, par.th[i].max_iter), par.seed)

\* the search of backtracking_coloring is running
Searching == pc = "backtracking" /\ bt.active

\* the working colors at the entry of the dfs call in frame j of the stack, as
\* the calls below it left them: every frame below j is suspended in its
\* recursive call, its vertex holding the colour c it is trying
EntryColors(j) ==
    [u \in Range(n) |->
        IF \E i \in 1 .. (j - 1) : bt.order[bt.stack[i].cur_pos] = u
        THEN bt.stack[CHOOSE i \in 1 .. (j - 1) : bt.order[bt.stack[i].cur_pos] = u].c
        ELSE -1]

\* the step is the return of the dfs call on top of the stack
DfsReturns ==
    /\ Searching
    /\ bt.stack # << >>
    /\ bt'.active
    /\ bt'.stack = Pop(bt.stack)

\* C23: every dfs call returns with the working colors as they were at its
\* entry (EntryColors is what they are at entry, and it is what they are at
\* the return, of a pruned, recording or branching call alike); when the
\* search has ended every entry is -1.
C23_DfsRestoresColors ==
    /\ [](Searching /\ bt.stack # << >> /\ Top(bt.stack).at = "enter"
            => bt.colors = EntryColors(Len(bt.stack)))
    /\ [][DfsReturns => bt'.colors = EntryColors(Len(bt.stack))]_vars
    /\ [](Searching /\ bt.stack = << >> => \A u \in Range(n) : bt.colors[u] = -1)

\* the search has ended after calls that branched, recorded and pruned
C23_Witness ==
    /\ Searching
    /\ bt.stack = << >>
    /\ n >= 3
    /\ bt.best_coloring # None
    /\ bt.nodes_visited > n + 1

\* the dfs call on top of the stack has just been entered at cur_pos = n
TerminalCall ==
    /\ Searching
    /\ bt.stack # << >>
    /\ Top(bt.stack).at = "enter"
    /\ Top(bt.stack).cur_pos = n

\* C24: best_num_colors starts at n + 1, changes only at a terminal call
\* (cur_pos = n) and then strictly decreases, the first terminal call always
\* changes it, and a complete coloring whose used_colors is not below
\* best_num_colors is never recorded.
C24_BoundEvolution ==
    /\ [](Searching /\ bt.nodes_visited = 0 => bt.best_num_colors = n + 1)
    /\ [][Searching /\ bt'.active /\ bt'.best_num_colors # bt.best_num_colors
            => TerminalCall /\ bt'.best_num_colors < bt.best_num_colors]_vars
    /\ [][TerminalCall /\ bt.best_coloring = None
            => bt'.best_num_colors # bt.best_num_colors /\ bt'.best_coloring # None]_vars
    /\ [][Searching /\ bt'.active /\ bt'.best_coloring # bt.best_coloring
            => TerminalCall /\ Top(bt.stack).used_colors < bt.best_num_colors]_vars

\* a later terminal call is about to improve on a coloring already recorded
C24_Witness ==
    /\ TerminalCall
    /\ bt.best_coloring # None
    /\ Top(bt.stack).used_colors < bt.best_num_colors

\* the vertices at the order positions from lo to hi - 1
AtPositions(lo, hi) == {bt.order[i] : i \in {j \in Range(n) : lo <= j /\ j < hi}}

\* C25: at the entry of every dfs call the vertices at order positions below
\* cur_pos are colored and form a proper partial coloring, those at positions
\* from cur_pos on are uncolored, and the colours held are exactly
\* 0 .. used_colors - 1; hence the legality test of the new colour
\* used_colors always succeeds and the new-colour branch is always taken.
C25_DfsEntryInvariant ==
    (Searching /\ bt.stack # << >>) =>
        LET f == Top(bt.stack) IN
        /\ f.at = "enter" =>
             /\ \A u \in AtPositions(0, f.cur_pos) : bt.colors[u] # -1
             /\ \A u \in AtPositions(0, f.cur_pos) : \A w \in AtPositions(0, f.cur_pos) :
                    Adjacent(u, w) => bt.colors[u] # bt.colors[w]
             /\ \A u \in AtPositions(f.cur_pos, n) : bt.colors[u] = -1
             /\ {bt.colors[u] : u \in AtPositions(0, f.cur_pos)} = 0 .. (f.used_colors - 1)
        /\ (f.at = "loop" /\ f.c = f.used_colors) =>
             IsSafeVertex(adj, bt.colors, bt.order[f.cur_pos], f.used_colors)

\* the new-colour branch is reached below two colored vertices holding two
\* colours, one of them adjacent to the vertex being colored
C25_Witness ==
    /\ Searching
    /\ bt.stack # << >>
    /\ Top(bt.stack).at = "loop"
    /\ Top(bt.stack).c = Top(bt.stack).used_colors
    /\ Top(bt.stack).used_colors >= 2
    /\ adj[bt.order[Top(bt.stack).cur_pos]] # << >>

\* the step is the end of an iteration of simulated_annealing: the move was
\* taken or refused
IterationEnds ==
    /\ pc = "annealing"
    /\ sa.at = "while"
    /\ sa'.active
    /\ sa'.at = "for"

\* C26: at the start of every iteration of simulated_annealing and at the
\* loop exit cur_conf equals count_conflicts(graph, colors); the neighbor-only
\* delta of an accepted move equals the change of the full recount, and a
\* rejected move changes neither colors nor cur_conf.
C26_ConflictCountExact ==
    /\ []((pc = "annealing" /\ sa.at = "for")
            => sa.cur_conf = CountConflicts(n, adj, sa.colors))
    /\ [][IterationEnds =>
            IF sa'.colors # sa.colors
            THEN sa'.cur_conf - sa.cur_conf
                   = CountConflicts(n, adj, sa'.colors) - CountConflicts(n, adj, sa.colors)
            ELSE sa'.cur_conf = sa.cur_conf]_vars

\* an iteration ran and its accepted move removed the last conflict
C26_Witness ==
    /\ pc = "annealing"
    /\ sa.at = "for"
    /\ sa.t >= 1
    /\ sa.cur_conf = 0
    /\ HasEdge

\* C27: in dsatur_coloring, at every selection step and for every uncolored
\* vertex v, neighbor_colors[v] is the set of the colours held by the colored
\* neighbors of v.
C27_NeighborColorsExact ==
    (pc = "dsatur" /\ ds.active) =>
        \A v \in Range(n) :
            ds.colors[v] = -1 => ds.neighbor_colors[v] = NeighborColours(ds.colors, v)

\* a selection step finds an uncolored vertex that sees two colours
C27_Witness ==
    /\ pc = "dsatur"
    /\ ds.active
    /\ \E v \in Range(n) : ds.colors[v] = -1 /\ Cardinality(ds.neighbor_colors[v]) = 2

\* the vertices whose colour differs between two colorings
Recoloured(old, new) == {u \in Range(n) : old[u] # new[u]}

\* the working coloring with the proposed move applied
Proposed == [sa.colors EXCEPT ![sa.v] = sa.new_c]

\* C28: in every iteration of simulated_annealing that proposes a move the
\* proposed colour lies in [0, k) and differs from the current colour of the
\* vertex, a move with delta <= 0 is always applied, at most one vertex
\* changes colour per iteration, and every entry of colors stays in [0, k).
C28_MoveSafety ==
    /\ [][IterationEnds =>
            /\ sa.new_c \in Range(sa.k)
            /\ sa.new_c # sa.colors[sa.v]
            /\ CountConflicts(n, adj, Proposed) <= CountConflicts(n, adj, sa.colors)
                 => sa'.colors = Proposed
            /\ Recoloured(sa.colors, sa'.colors) \subseteq {sa.v}]_vars
    /\ [][(pc = "annealing" /\ sa.active /\ sa'.active /\ ~IterationEnds)
            => sa'.colors = sa.colors]_vars
    /\ [](pc = "annealing" /\ sa.active => \A u \in Range(n) : sa.colors[u] \in Range(sa.k))

\* a move that keeps the number of conflicts is proposed: the old and the new
\* colour are each held by one neighbor
C28_Witness ==
    /\ pc = "annealing"
    /\ sa.at = "while"
    /\ sa.new_c # sa.old_c
    /\ NeighborsWith(adj, sa.colors, sa.v, sa.old_c) = 1
    /\ NeighborsWith(adj, sa.colors, sa.v, sa.new_c) = 1

\* C29: an add_edge(u, v) call that ends in an error because u or v is outside
\* 0 .. n-1 leaves the graph as it was; the adjacency stays symmetric and
\* holds only vertices of 0 .. n-1.
C29_FailedAddEdgeChangesNothing ==
    /\ [][(call'.count = call.count + 1 /\ call'.method = "add_edge" /\ call'.raised)
            => adj' = adj]_vars
    /\ [](\A u \in Range(n) : \A i \in 1 .. Len(adj[u]) :
            /\ adj[u][i] \in Range(n)
            /\ InList(u, adj[adj[u][i]]))

\* compare_all_algorithms is running
Comparing == cmp.at \notin {"idle", "returned"}

\* C30: on every graph built by add_edge on in-range vertices (n = 0 and
\* edgeless graphs included) compare_all_algorithms with k_for_annealing None
\* terminates and its annealing entry carries no error: the fallback
\* max_degree + 1 is never taken and k_used is the num_colors of backtracking.
C30_DefaultCompareTerminates ==
    /\ Comparing ~> (cmp.at = "returned")
    /\ [][(cmp.at = "derive" /\ cmp'.at = "annealing")
            => SuccessfulCounts(cmp.report) # {}]_vars
    /\ [](cmp.at = "returned" =>
            /\ "error" \notin DOMAIN cmp.report.annealing
            /\ cmp.report.annealing.k_used = cmp.report.backtracking.num_colors)

\* the comparison returned on a graph with an odd cycle, annealing run with 3
C30_Witness ==
    /\ cmp.at = "returned"
    /\ IsTriangle
    /\ cmp.report.annealing.k_used = 3

\* the comparison returned on the graph without vertices, annealing run with 0
C30_EmptyWitness ==
    /\ cmp.at = "returned"
    /\ n = 0
    /\ cmp.report.annealing.k_used = 0

====
